---------------------------- MODULE Spec2Model ----------------------------
(***************************************************************************)
(* Model of generate_test_numbers.py: the trial-division primality test,  *)
(* the directional prime searches, the two semiprime constructors and the *)
(* module-level report over the curated test_numbers table.                *)
(*                                                                         *)
(* Python integers are unbounded.  Values that stay small are modelled as  *)
(* integers; a value that can exceed 2^31 (10 ** target_digits, p * q of   *)
(* the constructor and of the table) is modelled by its decimal string,    *)
(* str(n): the sequence of its digits, most significant first.             *)
(***************************************************************************)
EXTENDS Integers, Sequences, FiniteSets

\* Bounds of the model (inputs drawn by the calls).
MaxN == 60
MaxNeg == 3
MaxDigits == 15
MaxMin == 24
MaxVal == 50
MaxCount == 3

---------------------------------------------------------------------------
\* Python arithmetic

\* int(n ** 0.5) for n >= 0: the floor of the square root (the float square
\* root is exact to the unit for every magnitude the model reaches).
RECURSIVE IsqrtIn(_, _, _)
IsqrtIn(n, lo, hi) ==
    IF lo >= hi THEN lo
    ELSE LET mid == (lo + hi + 1) \div 2
         IN  IF mid <= n \div mid THEN IsqrtIn(n, mid, hi)
             ELSE IsqrtIn(n, lo, mid - 1)

Isqrt(n) == IsqrtIn(n, 0, n)

\* range(start, stop, 2)
Range2(start, stop) == {i \in start..(stop - 1) : (i - start) % 2 = 0}

\* 10 ** k as an integer (k small)
RECURSIVE Pow10(_)
Pow10(k) == IF k = 0 THEN 1 ELSE 10 * Pow10(k - 1)

\* str(n) for n >= 0
RECURSIVE str(_)
str(n) == IF n < 10 THEN <<n>> ELSE Append(str(n \div 10), n % 10)

\* str(10 ** d)
StrPow10(d) == <<1>> \o [i \in 1..d |-> 0]

\* str(p * q + carry) for p > 0, q >= 0, 0 <= carry < p, without the leading
\* zeros; the empty string stands for 0.
RECURSIVE MulAcc(_, _, _)
MulAcc(p, q, carry) ==
    IF q = 0 THEN (IF carry = 0 THEN <<>> ELSE str(carry))
    ELSE LET t == p * (q % 10) + carry
         IN  Append(MulAcc(p, q \div 10, t \div 10), t % 10)

\* str(p * q): the product of two positive integers as Python computes it,
\* with no overflow.
StrMul(p, q) == IF p = 0 \/ q = 0 THEN <<0>> ELSE MulAcc(p, q, 0)

\* s // p for a decimal string s and an integer p > 0 (quotient and remainder
\* by long division).
RECURSIVE StrDivMod(_, _)
StrDivMod(s, p) ==
    IF s = <<>> THEN [quot |-> 0, rem |-> 0]
    ELSE LET r   == StrDivMod(SubSeq(s, 1, Len(s) - 1), p)
             cur == r.rem * 10 + s[Len(s)]
         IN  [quot |-> r.quot * 10 + cur \div p, rem |-> cur % p]

StrFloorDiv(s, p) == StrDivMod(s, p).quot

---------------------------------------------------------------------------
\* is_prime, next_prime, prev_prime

\* The stop of the trial-division range: int(n**0.5) + 1
TrialStop_exclusive(n) == Isqrt(n)

TrialStop(n) == Isqrt(n) + 1

is_prime(n) ==
    IF n < 2 THEN FALSE
    ELSE IF n = 2 THEN TRUE
    ELSE IF n % 2 = 0 THEN FALSE
    ELSE \A i \in Range2(3, TrialStop(n)) : n % i # 0

RECURSIVE next_prime_loop(_)
next_prime_loop(candidate) ==
    IF is_prime(candidate) THEN candidate ELSE next_prime_loop(candidate + 2)

next_prime(n) == next_prime_loop(IF n % 2 = 0 THEN n + 1 ELSE n + 2)

RECURSIVE prev_prime_loop(_)
prev_prime_loop(candidate) ==
    IF candidate > 2 /\ ~is_prime(candidate)
    THEN prev_prime_loop(candidate - 2)
    ELSE candidate

prev_prime_no_test(n) == IF n % 2 = 0 THEN n - 1 ELSE n - 2

prev_prime(n) == prev_prime_loop(IF n % 2 = 0 THEN n - 1 ELSE n - 2)

---------------------------------------------------------------------------
\* generate_semiprime: the loop conditions and the grow loop

\* len(str(product)) > target_digits
ShrinkCond(product, target_digits) == Len(product) > target_digits

\* len(str(product)) < target_digits
GrowCond(product, target_digits) == Len(product) < target_digits

\* The grow loop run to its exit: the q it leaves (product is p * q).
RECURSIVE GrowLoop(_, _, _)
GrowLoop(p, q, target_digits) ==
    IF GrowCond(StrMul(p, q), target_digits)
    THEN GrowLoop(p, next_prime(q), target_digits)
    ELSE q

\* q = <a new q>; product = p * q
WithQ(locals, q) ==
    [locals EXCEPT !.q = q, !.product = StrMul(locals.p, q)]

---------------------------------------------------------------------------
\* find_semiprimes_in_range: the expressions of its loops

\* p = next_prime(int(min_val ** 0.5))
FirstP(min_val) == next_prime(Isqrt(min_val))

\* q = next_prime(min_val // p)
FirstQ_no_search(min_val, p) == min_val \div p

FirstQ(min_val, p) == next_prime(min_val \div p)

\* q = next_prime(q)
AdvanceQ_stuck(q) == q

AdvanceQ(q) == next_prime(q)

\* p = next_prime(p)
AdvanceP_stuck(p) == p

AdvanceP(p) == next_prime(p)

\* len(results) < count and p * p < max_val
OuterCond(results, count, p, max_val) ==
    Len(results) < count /\ p * p < max_val

\* min_val <= product <= max_val and len(str(product)) == len(str(min_val))
Accept_no_digit_filter(min_val, max_val, product) ==
    min_val <= product /\ product <= max_val

Accept(min_val, max_val, product) ==
    /\ min_val <= product
    /\ product <= max_val
    /\ Len(str(product)) = Len(str(min_val))

---------------------------------------------------------------------------
\* The curated table and the report

Entry(p, q, n) == [p |-> p, q |-> q, n |-> n]

\* test_numbers: digits -> list of (p, q, n), n written as str(n)
test_numbers ==
    [digits \in 8..12 |->
       CASE digits = 8 ->
              << Entry(6917, 6923, <<4,7,8,9,3,1,9,7>>) >>
         [] digits = 9 ->
              << Entry(10007, 31469, <<3,1,4,9,2,0,5,8,3>>),
                 Entry(14143, 23971, <<3,3,9,0,2,3,6,5,3>>),
                 Entry(18713, 19681, <<3,6,8,2,3,7,3,5,3>>) >>
         [] digits = 10 ->
              << Entry(31627, 31657, <<1,0,0,1,1,6,3,1,3,9>>),
                 Entry(100003, 99991, <<9,9,9,9,3,9,9,9,7,3>>),
                 Entry(158233, 189389, <<2,9,9,6,8,6,6,1,1,3,7>>) >>
         [] digits = 11 ->
              << Entry(316513, 316549, <<1,0,0,1,7,9,9,2,4,4,3,7>>),
                 Entry(500009, 630007, <<3,1,5,0,0,8,6,3,0,0,6,3>>),
                 Entry(707089, 811447, <<5,7,3,8,8,1,8,1,9,1,8,3>>) >>
         [] digits = 12 ->
              << Entry(1000003, 999983, <<9,9,9,9,8,5,9,9,9,9,4,9>>),
                 Entry(2236067, 1483637, <<3,3,1,7,7,3,8,8,1,9,2,7,9>>) >>]

\* sorted(S)
RECURSIVE sorted(_)
sorted(S) ==
    IF S = {} THEN <<>>
    ELSE LET m == CHOOSE x \in S : \A y \in S : x <= y
         IN  <<m>> \o sorted(S \ {m})

\* The line the loop body prints for entry e of group digits.
EntryLine_unverified(digits, e) ==
    [kind |-> "product", p |-> e.p, q |-> e.q, n |-> e.n,
     text |-> <<"baseline", digits = 8>>]

EntryLine(digits, e) ==
    IF StrMul(e.p, e.q) # e.n
    THEN [kind |-> "ERROR", p |-> e.p, q |-> e.q, n |-> e.n,
          text |-> <<"product is", StrMul(e.p, e.q)>>]
    ELSE IF Len(e.n) # digits
    THEN [kind |-> "ERROR", p |-> e.p, q |-> e.q, n |-> e.n,
          text |-> <<"digits", Len(e.n), digits>>]
    ELSE [kind |-> "product", p |-> e.p, q |-> e.q, n |-> e.n,
          text |-> <<"baseline", digits = 8>>]

Plain(kind) == [kind |-> kind]

HeaderLine(digits) == [kind |-> "header", digits |-> digits]

---------------------------------------------------------------------------
VARIABLES
    pc,     \* where the program is
    call,   \* a call of is_prime, next_prime or prev_prime: fn, n, ret
    gs,     \* the locals of generate_semiprime
    fs,     \* the arguments and locals of find_semiprimes_in_range
    rp      \* the report loop: group index, entry index, lines printed

vars == <<pc, call, gs, fs, rp>>

NoCall == [fn |-> "none"]

Init ==
    /\ pc = "idle"
    /\ call = NoCall
    /\ gs = NoCall
    /\ fs = NoCall
    /\ rp = NoCall

IsPrimeCall(n) ==
    /\ pc = "idle"
    /\ pc' = "called"
    /\ call' = [fn |-> "is_prime", n |-> n, ret |-> is_prime(n)]
    /\ UNCHANGED <<gs, fs, rp>>

NextPrimeCall(n) ==
    /\ pc = "idle"
    /\ pc' = "called"
    /\ call' = [fn |-> "next_prime", n |-> n, ret |-> next_prime(n)]
    /\ UNCHANGED <<gs, fs, rp>>

PrevPrimeCall(n) ==
    /\ pc = "idle"
    /\ pc' = "called"
    /\ call' = [fn |-> "prev_prime", n |-> n, ret |-> prev_prime(n)]
    /\ UNCHANGED <<gs, fs, rp>>

\* generate_semiprime(target_digits), up to the first product
GS_Call(target_digits) ==
    /\ pc = "idle"
    /\ LET half_digits == target_digits \div 2
           p        == next_prime(Pow10(half_digits))
           q_target == StrFloorDiv(StrPow10(target_digits), p)
           q        == next_prime(q_target)
       IN  gs' = [fn |-> "generate_semiprime",
                  target_digits |-> target_digits,
                  p |-> p, q_target |-> q_target, q |-> q,
                  product |-> StrMul(p, q)]
    /\ pc' = "gs_shrink"
    /\ UNCHANGED <<call, fs, rp>>

\* One pass of "while len(str(product)) > target_digits"
GS_Shrink ==
    /\ pc = "gs_shrink"
    /\ ShrinkCond(gs.product, gs.target_digits)
    /\ gs' = WithQ(gs, prev_prime(gs.q))
    /\ UNCHANGED <<pc, call, fs, rp>>

\* The shrink loop exits; the grow loop runs; the function returns
GS_Grow ==
    /\ pc = "gs_shrink"
    /\ ~ShrinkCond(gs.product, gs.target_digits)
    /\ gs' = WithQ(gs, GrowLoop(gs.p, gs.q, gs.target_digits))
    /\ pc' = "gs_return"
    /\ UNCHANGED <<call, fs, rp>>

\* find_semiprimes_in_range(min_val, max_val, count), up to the outer loop
FS_Call(min_val, max_val, count) ==
    /\ pc = "idle"
    /\ fs' = [fn |-> "find_semiprimes_in_range",
              min_val |-> min_val, max_val |-> max_val, count |-> count,
              results |-> <<>>, p |-> FirstP(min_val), q |-> 0, product |-> 0]
    /\ pc' = "fs_outer"
    /\ UNCHANGED <<call, gs, rp>>

\* The outer loop's test succeeds: q and product are set for this p
FS_OuterEnter ==
    /\ pc = "fs_outer"
    /\ OuterCond(fs.results, fs.count, fs.p, fs.max_val)
    /\ LET q == FirstQ(fs.min_val, fs.p)
       IN  fs' = [fs EXCEPT !.q = q, !.product = fs.p * q]
    /\ pc' = "fs_inner"
    /\ UNCHANGED <<call, gs, rp>>

\* The outer loop's test fails: return results
FS_OuterExit ==
    /\ pc = "fs_outer"
    /\ ~OuterCond(fs.results, fs.count, fs.p, fs.max_val)
    /\ pc' = "fs_return"
    /\ UNCHANGED <<call, gs, fs, rp>>

\* One pass of "while product <= max_val"; a break, like the loop's exit,
\* goes on to p = next_prime(p)
FS_Inner ==
    /\ pc = "fs_inner"
    /\ fs.product <= fs.max_val
    /\ LET accept  == Accept(fs.min_val, fs.max_val, fs.product)
           results == IF accept
                      THEN Append(fs.results, <<fs.p, fs.q, fs.product>>)
                      ELSE fs.results
           q       == AdvanceQ(fs.q)
       IN  IF accept /\ Len(results) >= fs.count
           THEN /\ fs' = [fs EXCEPT !.results = results, !.p = AdvanceP(fs.p)]
                /\ pc' = "fs_outer"
           ELSE /\ fs' = [fs EXCEPT !.results = results, !.q = q,
                                    !.product = fs.p * q]
                /\ pc' = "fs_inner"
    /\ UNCHANGED <<call, gs, rp>>

\* The inner loop's test fails: p = next_prime(p)
FS_InnerExit ==
    /\ pc = "fs_inner"
    /\ ~(fs.product <= fs.max_val)
    /\ fs' = [fs EXCEPT !.p = AdvanceP(fs.p)]
    /\ pc' = "fs_outer"
    /\ UNCHANGED <<call, gs, rp>>

\* The report: the banner, then the loop over sorted(test_numbers.keys())
RP_Start ==
    /\ pc = "idle"
    /\ rp' = [fn |-> "report", keys |-> sorted(DOMAIN test_numbers),
              gi |-> 1, ei |-> 1,
              out |-> <<Plain("banner"), Plain("title"), Plain("banner"),
                        Plain("blank")>>]
    /\ pc' = "rp_group"
    /\ UNCHANGED <<call, gs, fs>>

\* for digits in ...: print the group's header
RP_Header ==
    /\ pc = "rp_group"
    /\ rp.gi <= Len(rp.keys)
    /\ rp' = [rp EXCEPT !.ei = 1,
                        !.out = Append(rp.out, HeaderLine(rp.keys[rp.gi]))]
    /\ pc' = "rp_entry"
    /\ UNCHANGED <<call, gs, fs>>

\* for p, q, n in test_numbers[digits]: verify and print one line
RP_Entry ==
    /\ pc = "rp_entry"
    /\ rp.ei <= Len(test_numbers[rp.keys[rp.gi]])
    /\ LET digits == rp.keys[rp.gi]
           e      == test_numbers[digits][rp.ei]
       IN  rp' = [rp EXCEPT !.ei = rp.ei + 1,
                            !.out = Append(rp.out, EntryLine(digits, e))]
    /\ UNCHANGED <<pc, call, gs, fs>>

\* The group is exhausted: print the blank line, go to the next group
RP_EndGroup ==
    /\ pc = "rp_entry"
    /\ rp.ei > Len(test_numbers[rp.keys[rp.gi]])
    /\ rp' = [rp EXCEPT !.gi = rp.gi + 1,
                        !.out = Append(rp.out, Plain("blank"))]
    /\ pc' = "rp_group"
    /\ UNCHANGED <<call, gs, fs>>

\* The groups are exhausted: print the usage block
RP_Usage ==
    /\ pc = "rp_group"
    /\ rp.gi > Len(rp.keys)
    /\ rp' = [rp EXCEPT !.out = rp.out \o <<Plain("banner"), Plain("blank"),
                                            Plain("usage")>>]
    /\ pc' = "rp_done"
    /\ UNCHANGED <<call, gs, fs>>

\* The call or the script is over; nothing is kept between calls
Return ==
    /\ pc \in {"called", "gs_return", "fs_return", "rp_done"}
    /\ pc' = "idle"
    /\ call' = NoCall
    /\ gs' = NoCall
    /\ fs' = NoCall
    /\ rp' = NoCall

Next ==
    \/ \E n \in (-MaxNeg)..MaxN : IsPrimeCall(n)
    \/ \E n \in (-MaxNeg)..MaxN : NextPrimeCall(n)
    \/ \E n \in (-MaxNeg)..MaxN : PrevPrimeCall(n)
    \/ \E target_digits \in 1..MaxDigits : GS_Call(target_digits)
    \/ GS_Shrink
    \/ GS_Grow
    \/ \E min_val \in 0..MaxMin, max_val \in 0..MaxVal, count \in 0..MaxCount :
          FS_Call(min_val, max_val, count)
    \/ FS_OuterEnter
    \/ FS_OuterExit
    \/ FS_Inner
    \/ FS_InnerExit
    \/ RP_Start
    \/ RP_Header
    \/ RP_Entry
    \/ RP_EndGroup
    \/ RP_Usage
    \/ Return

Spec == Init /\ [][Next]_vars

\* The steps of a call of find_semiprimes_in_range, or of the report, that
\* has begun.
Run ==
    \/ FS_OuterEnter
    \/ FS_OuterExit
    \/ FS_Inner
    \/ FS_InnerExit
    \/ RP_Header
    \/ RP_Entry
    \/ RP_EndGroup
    \/ RP_Usage

\* The program is one thread: a loop that has begun runs on until it exits.
FairSpec == Spec /\ WF_vars(Run)

---------------------------------------------------------------------------
\* Definitions the properties are stated with

\* n is prime: n >= 2 and no d with 2 <= d, d * d <= n divides n.
Prime(n) == n >= 2 /\ \A d \in 2..Isqrt(n) : n % d # 0

FsPcs == {"fs_outer", "fs_inner", "fs_return"}

RpPcs == {"rp_group", "rp_entry", "rp_done"}

\* The entries of the table in the order of ascending digit count, each with
\* the digit count of its group.
RECURSIVE EntriesOf(_)
EntriesOf(keys) ==
    IF keys = <<>> THEN <<>>
    ELSE [i \in 1..Len(test_numbers[Head(keys)]) |->
             [digits |-> Head(keys), e |-> test_numbers[Head(keys)][i]]]
         \o EntriesOf(Tail(keys))

AllEntries == EntriesOf(sorted(DOMAIN test_numbers))

IsEntryLine(l) == l.kind \in {"ERROR", "product"}

IsHeaderLine(l) == l.kind = "header"

Mismatch(a) == StrMul(a.e.p, a.e.q) # a.e.n \/ Len(a.e.n) # a.digits

---------------------------------------------------------------------------
\* C1: for every digit count d in 2..MaxDigits, generate_semiprime(d) returns
\* (p, q, product) with p prime, q prime, product = p * q and product of
\* exactly d decimal digits.
C1_GenerateSemiprime ==
    (pc = "gs_return" /\ gs.target_digits >= 2) =>
        /\ Prime(gs.p)
        /\ Prime(gs.q)
        /\ gs.product = StrMul(gs.p, gs.q)
        /\ Len(gs.product) = gs.target_digits

\* A return after the shrink loop has replaced q (q starts above q_target).
C1_Witness ==
    /\ pc = "gs_return"
    /\ gs.target_digits >= 8
    /\ gs.q < gs.q_target

\* C2: find_semiprimes_in_range returns at most count triples, each with
\* product = p * q, min_val <= product <= max_val and product of as many
\* decimal digits as min_val.
C2_FindContract ==
    pc = "fs_return" =>
        /\ Len(fs.results) <= fs.count
        /\ \A i \in 1..Len(fs.results) :
              LET r == fs.results[i]
              IN  /\ r[3] = r[1] * r[2]
                  /\ fs.min_val <= r[3]
                  /\ r[3] <= fs.max_val
                  /\ Len(str(r[3])) = Len(str(fs.min_val))

\* A return of count triples found under two different p.
C2_Witness ==
    /\ pc = "fs_return"
    /\ fs.count >= 3
    /\ Len(fs.results) = fs.count
    /\ fs.results[1][1] # fs.results[3][1]

\* C3: for every integer n, next_prime(n) is a prime above n with no prime
\* strictly between n and it (the smallest prime greater than n).
C3_NextPrimeSmallest ==
    (pc = "called" /\ call.fn = "next_prime") =>
        /\ Prime(call.ret)
        /\ call.ret > call.n
        /\ \A k \in (call.n + 1)..(call.ret - 1) : ~Prime(k)

\* C4: for every n > 2, prev_prime(n) is a prime below n with no prime
\* strictly between it and n; it is never a non-prime value.
C4_PrevPrimeLargest ==
    (pc = "called" /\ call.fn = "prev_prime" /\ call.n > 2) =>
        /\ Prime(call.ret)
        /\ call.ret < call.n
        /\ \A k \in (call.ret + 1)..(call.n - 1) : ~Prime(k)

\* C5: is_prime(n) is true exactly when n >= 2 and no d with 2 <= d and
\* d * d <= n divides n; false for n < 2, true for 2, false for even n > 2.
C5_IsPrimeTrialDivision ==
    (pc = "called" /\ call.fn = "is_prime") =>
        /\ call.ret = (/\ call.n >= 2
                       /\ ~\E d \in 2..call.n : d * d <= call.n /\ call.n % d = 0)
        /\ call.n < 2 => call.ret = FALSE
        /\ call.n = 2 => call.ret = TRUE
        /\ (call.n > 2 /\ call.n % 2 = 0) => call.ret = FALSE

\* is_prime has rejected an odd square, whose only divisor is its root.
C5_Witness ==
    /\ pc = "called"
    /\ call.fn = "is_prime"
    /\ call.n = 49
    /\ call.ret = FALSE

\* What the report has printed is right so far: the headers ascend, the i-th
\* entry line is the line of the i-th entry of the table, an ERROR line
\* exactly when p * q # n or n has not the group's digit count; and when the
\* report is done every group and entry has its line and the usage block is
\* the last thing printed.
ReportRight ==
    pc \in RpPcs =>
        LET lines   == SelectSeq(rp.out, IsEntryLine)
            headers == SelectSeq(rp.out, IsHeaderLine)
        IN  /\ \A i \in 1..Len(headers) : \A j \in 1..Len(headers) :
                  i < j => headers[i].digits < headers[j].digits
            /\ Len(lines) <= Len(AllEntries)
            /\ \A i \in 1..Len(lines) :
                  /\ lines[i].p = AllEntries[i].e.p
                  /\ lines[i].q = AllEntries[i].e.q
                  /\ lines[i].n = AllEntries[i].e.n
                  /\ lines[i].kind =
                        IF Mismatch(AllEntries[i]) THEN "ERROR" ELSE "product"
            /\ pc = "rp_done" =>
                  /\ Len(lines) = Len(AllEntries)
                  /\ {headers[i].digits : i \in 1..Len(headers)}
                        = DOMAIN test_numbers
                  /\ rp.out[Len(rp.out)].kind = "usage"

\* C6: the report visits the groups in ascending order, prints exactly one
\* line per entry (ERROR on a product or digit mismatch, else the product
\* line), and an ERROR never stops it: it always reaches the usage block.
C6_ReportDegradesGracefully ==
    /\ []ReportRight
    /\ (pc \in RpPcs) ~> (pc = "rp_done")

\* The report is done, and printed a product line after an ERROR line.
C6_Witness ==
    /\ pc = "rp_done"
    /\ \E i \in 1..Len(rp.out) : \E j \in 1..Len(rp.out) :
          i < j /\ rp.out[i].kind = "ERROR" /\ rp.out[j].kind = "product"

\* C7: every entry of test_numbers is known good (p * q = n and n has the
\* digit count of its group), so the report prints no ERROR line; the
\* baseline line is that of 6917 * 6923 = 47893197, both factors prime.
C7_TableKnownGood ==
    pc \in RpPcs =>
        LET lines == SelectSeq(rp.out, IsEntryLine)
        IN  \A i \in 1..Len(lines) :
               /\ ~Mismatch(AllEntries[i])
               /\ lines[i].kind = "product"
               /\ AllEntries[i].digits = 8 =>
                     /\ lines[i].n = StrMul(6917, 6923)
                     /\ Prime(lines[i].p)
                     /\ Prime(lines[i].q)

\* C8: find_semiprimes_in_range terminates: product strictly increases in
\* the inner loop, p strictly increases from one outer pass to the next, and
\* every call reaches its return.
C8_FindTerminates ==
    /\ [][(pc = "fs_inner" /\ pc' = "fs_inner") =>
             fs'.product > fs.product]_vars
    /\ [][(pc = "fs_inner" /\ pc' = "fs_outer") => fs'.p > fs.p]_vars
    /\ (pc \in {"fs_outer", "fs_inner"}) ~> (pc = "fs_return")

\* A return because p * p reached max_val, after the inner loop found some
\* triples but fewer than count.
C8_Witness ==
    /\ pc = "fs_return"
    /\ Len(fs.results) > 0
    /\ Len(fs.results) < fs.count

\* C9 as stated: the products of the returned triples are pairwise distinct.
C9_ProductsDistinct ==
    pc = "fs_return" =>
        \A i \in 1..Len(fs.results) : \A j \in 1..Len(fs.results) :
            i # j => fs.results[i][3] # fs.results[j][3]

\* C9 (amended): the returned (p, q) pairs are pairwise distinct, and two
\* returned triples have the same product only as (p, q, n) and (q, p, n).
C9_PairsDistinct ==
    pc = "fs_return" =>
        \A i \in 1..Len(fs.results) : \A j \in 1..Len(fs.results) :
            i # j =>
               LET a == fs.results[i]
                   b == fs.results[j]
               IN  /\ <<a[1], a[2]>> # <<b[1], b[2]>>
                   /\ a[3] = b[3] => (a[1] = b[2] /\ a[2] = b[1])

\* A return with the same semiprime reported twice.
C9_Witness ==
    /\ pc = "fs_return"
    /\ \E i \in 1..Len(fs.results) : \E j \in 1..Len(fs.results) :
          i # j /\ fs.results[i][3] = fs.results[j][3]

\* C10: every returned product is strictly greater than min_val, and every
\* returned p is greater than floor(sqrt(min_val)).
C10_AboveMin ==
    pc = "fs_return" =>
        \A i \in 1..Len(fs.results) :
            /\ fs.results[i][3] > fs.min_val
            /\ fs.results[i][1] > Isqrt(fs.min_val)

\* A return of some triples when min_val is itself a semiprime in the range.
C10_Witness ==
    /\ pc = "fs_return"
    /\ Len(fs.results) > 0
    /\ fs.min_val <= fs.max_val
    /\ \E a \in 2..fs.min_val : \E b \in 2..fs.min_val :
          Prime(a) /\ Prime(b) /\ a * b = fs.min_val

=============================================================================
